---------------------------- MODULE Spec2Model ----------------------------
(***************************************************************************)
(* Task management API (Django REST framework): users, auth tokens and     *)
(* per-user tasks.  Text values whose characters matter (usernames,        *)
(* emails, titles) are sequences of one-character strings.  Every request  *)
(* handler is a pure operator from (store, request) to (store, response);  *)
(* the actions apply these operators to the store.                         *)
(*                                                                         *)
(* Task.description, Task.created_at and Task.updated_at are carried by no *)
(* handler decision and are left out of the task record.                   *)
(***************************************************************************)
EXTENDS Integers, Sequences, FiniteSets, TLC

\* users, tasks: tables keyed by id; tokens: the rows of the token table;
\* next*: the ids and keys not yet issued; now: the clock; response: the
\* answer to the last request; call: a validator call on its own;
\* inflight: per worker, the task request it is in the middle of
VARIABLES users, nextUserId, tokens, nextKey, tasks, nextTaskId, now, response,
          call, inflight

vars == <<users, nextUserId, tokens, nextKey, tasks, nextTaskId, now, response,
          call, inflight>>

---------------------------------------------------------------------------
(* Bounds of the model *)

\* user ids ever issued
MaxUsers == 2
\* task ids ever issued
MaxTasks == 2
\* token keys ever generated
MaxKeys == 3
\* last instant of the clock
MaxNow == 1
\* longest username handed to validate_username on its own
MaxUsernameLen == 3

---------------------------------------------------------------------------
(* Text *)

Letters == {"a", "b", "A", "t", "u", "x"}
Digits == {"1"}
Whitespace == {" "}

\* str.lower() on one character
LowerChar(c) == IF c = "A" THEN "a" ELSE c

\* str.lower()
lower(s) == [i \in 1..Len(s) |-> LowerChar(s[i])]

\* str.isalnum(): non-empty and every character a letter or a digit
isalnum(s) == Len(s) > 0 /\ \A i \in 1..Len(s) : s[i] \in Letters \cup Digits

\* c in s
contains(s, c) == \E i \in 1..Len(s) : s[i] = c

RECURSIVE lstrip(_)
lstrip(s) == IF s # <<>> /\ Head(s) \in Whitespace THEN lstrip(Tail(s)) ELSE s

RECURSIVE rstrip(_)
rstrip(s) ==
    IF s # <<>> /\ s[Len(s)] \in Whitespace
    THEN rstrip(SubSeq(s, 1, Len(s) - 1))
    ELSE s

\* str.strip()
strip(s) == rstrip(lstrip(s))

---------------------------------------------------------------------------
(* Request inputs *)

Usernames == {<<"a">>, <<"b">>, <<"_", "-">>, <<"-">>}
Emails == {<<"a", "@", "x">>, <<"A", "@", "x">>, <<"b", "@", "x">>}
Passwords == {"longenough1", "short"}

RegistrationData ==
    [username : Usernames, email : Emails,
     password : Passwords, password_confirm : Passwords]

\* None for a nullable DateTimeField
NoDate == -1

Titles == {<<>>, <<" ", " ">>, <<" ", "t", " ">>, <<"u">>}
StatusInputs == {"pending", "completed", "archived"}
DueInputs == {NoDate} \cup (0..MaxNow)
TaskFields == {"title", "status", "due_date"}

\* a request body holds any subset of the writable task fields
TaskData ==
    { [f \in S |-> full[f]] :
        full \in [title : Titles, status : StatusInputs, due_date : DueInputs],
        S \in SUBSET TaskFields }

---------------------------------------------------------------------------
(* Task model *)

STATUS_CHOICES == {"pending", "completed"}

\* Task.clean: the due date of a task that has no primary key yet is not
\* in the past
clean(task, pk, t) ==
    IF task.due_date # NoDate /\ pk = 0
    THEN IF task.due_date < t THEN {"due_date"} ELSE {}
    ELSE {}

\* Model.clean_fields: title is not blank, status is one of the choices
clean_fields(task) ==
    (IF task.title = <<>> THEN {"title"} ELSE {})
    \cup (IF task.status \notin STATUS_CHOICES THEN {"status"} ELSE {})

\* Model.full_clean, as Task.save calls it: the fields in error
full_clean(task, pk, t) == clean_fields(task) \cup clean(task, pk, t)

---------------------------------------------------------------------------
(* TaskSerializer *)

\* validate_due_date without the test on self.instance
validate_due_date_every_save(value, instance, t) ==
    IF value # NoDate
    THEN IF value < t THEN [ok |-> FALSE, value |-> value]
                      ELSE [ok |-> TRUE, value |-> value]
    ELSE [ok |-> TRUE, value |-> value]

\* validate_due_date(value) of a serializer bound to instance (0: none)
validate_due_date(value, instance, t) ==
    IF value # NoDate /\ instance = 0
    THEN IF value < t THEN [ok |-> FALSE, value |-> value]
                      ELSE [ok |-> TRUE, value |-> value]
    ELSE [ok |-> TRUE, value |-> value]

\* validate_title that returns the value as it came
validate_title_untrimmed(value) ==
    IF strip(value) = <<>>
    THEN [ok |-> FALSE, value |-> value]
    ELSE [ok |-> TRUE, value |-> value]

validate_title(value) ==
    IF strip(value) = <<>>
    THEN [ok |-> FALSE, value |-> value]
    ELSE [ok |-> TRUE, value |-> strip(value)]

\* the ChoiceField built from Task.status
validate_status(value) ==
    [ok |-> value \in STATUS_CHOICES, value |-> value]

\* Serializer.is_valid: the fields in error; title is the one required
\* field, and only when the request is not partial
TaskFieldErrors(data, instance, partial, t) ==
    (IF "title" \in DOMAIN data
     THEN IF validate_title(data.title).ok THEN {} ELSE {"title"}
     ELSE IF partial THEN {} ELSE {"title"})
    \cup (IF "status" \in DOMAIN data /\ ~validate_status(data.status).ok
          THEN {"status"} ELSE {})
    \cup (IF "due_date" \in DOMAIN data
             /\ ~validate_due_date(data.due_date, instance, t).ok
          THEN {"due_date"} ELSE {})

\* serializer.validated_data laid over the field values `base`
Validated(data, base, instance, t) ==
    [title |-> IF "title" \in DOMAIN data
               THEN validate_title(data.title).value ELSE base.title,
     status |-> IF "status" \in DOMAIN data
                THEN validate_status(data.status).value ELSE base.status,
     due_date |-> IF "due_date" \in DOMAIN data
                  THEN validate_due_date(data.due_date, instance, t).value
                  ELSE base.due_date]

---------------------------------------------------------------------------
(* TaskViewSet *)

\* get_queryset without the filter on the user
get_queryset_unfiltered(caller) == DOMAIN tasks

\* get_queryset: the ids of the tasks of the authenticated user
get_queryset(caller) == {id \in DOMAIN tasks : tasks[id].user = caller}

\* get_object: the task with this id in the caller's queryset, else 404
get_object(caller, id) == IF id \in get_queryset(caller) THEN id ELSE 0

list(caller) == get_queryset(caller)

retrieve(caller, id) ==
    IF get_object(caller, id) = 0 THEN "NotFound" ELSE tasks[id]

pending(caller) == {id \in get_queryset(caller) : tasks[id].status = "pending"}

completed(caller) ==
    {id \in get_queryset(caller) : tasks[id].status = "completed"}

\* due_date__lt never matches a null due_date
overdue(caller) ==
    {id \in get_queryset(caller) :
        /\ tasks[id].due_date # NoDate
        /\ tasks[id].due_date < now
        /\ tasks[id].status = "pending"}

\* UserProfileView.get: the statistics block
profile(caller) ==
    [total_tasks |-> Cardinality(get_queryset(caller)),
     pending_tasks |-> Cardinality(pending(caller)),
     completed_tasks |-> Cardinality(completed(caller))]

Put(store, id, rec) ==
    [k \in DOMAIN store \cup {id} |-> IF k = id THEN rec ELSE store[k]]

Drop(store, ids) == [k \in DOMAIN store \ ids |-> store[k]]

\* Task.save of `task` under primary key pk (0: a new row, which takes
\* the next id) at instant t: the store after it and whether it raised
save(task, pk, t) ==
    IF full_clean(task, pk, t) # {}
    THEN [raised |-> TRUE, tasks |-> tasks, id |-> pk]
    ELSE [raised |-> FALSE,
          tasks |-> Put(tasks, IF pk = 0 THEN nextTaskId ELSE pk, task),
          id |-> IF pk = 0 THEN nextTaskId ELSE pk]

\* create + perform_create: validation reads the clock at t1, save at t2
create(caller, data, t1, t2) ==
    LET errs == TaskFieldErrors(data, 0, FALSE, t1)
        v == Validated(data, [title |-> <<>>, status |-> "pending",
                              due_date |-> NoDate], 0, t1)
        s == save([user |-> caller, title |-> v.title, status |-> v.status,
                   due_date |-> v.due_date], 0, t2)
    IN  IF errs # {}
        THEN [err |-> "InvalidField", fields |-> errs, tasks |-> tasks, id |-> 0]
        ELSE IF s.raised
        THEN [err |-> "ServerError", fields |-> {}, tasks |-> tasks, id |-> 0]
        ELSE [err |-> "ok", fields |-> {}, tasks |-> s.tasks, id |-> s.id]

\* update / partial_update + perform_update
update(caller, id, data, partial, t1, t2) ==
    IF get_object(caller, id) = 0
    THEN [err |-> "NotFound", fields |-> {}, tasks |-> tasks, id |-> id]
    ELSE
    LET errs == TaskFieldErrors(data, id, partial, t1)
        v == Validated(data, tasks[id], id, t1)
        s == save([user |-> caller, title |-> v.title, status |-> v.status,
                   due_date |-> v.due_date], id, t2)
    IN  IF errs # {}
        THEN [err |-> "InvalidField", fields |-> errs, tasks |-> tasks, id |-> id]
        ELSE IF s.raised
        THEN [err |-> "ServerError", fields |-> {}, tasks |-> tasks, id |-> id]
        ELSE [err |-> "ok", fields |-> {}, tasks |-> s.tasks, id |-> id]

\* complete that sets the status and never saves
complete_unsaved(caller, id, t) ==
    IF get_object(caller, id) = 0
    THEN [err |-> "NotFound", fields |-> {}, tasks |-> tasks, id |-> id]
    ELSE [err |-> "ok", fields |-> {}, tasks |-> tasks, id |-> id]

\* the complete action
complete(caller, id, t) ==
    IF get_object(caller, id) = 0
    THEN [err |-> "NotFound", fields |-> {}, tasks |-> tasks, id |-> id]
    ELSE
    LET s == save([tasks[id] EXCEPT !.status = "completed"], id, t)
    IN  IF s.raised
        THEN [err |-> "ServerError", fields |-> {}, tasks |-> tasks, id |-> id]
        ELSE [err |-> "ok", fields |-> {}, tasks |-> s.tasks, id |-> id]

\* destroy
destroy(caller, id) ==
    IF get_object(caller, id) = 0
    THEN [err |-> "NotFound", fields |-> {}, tasks |-> tasks, id |-> id]
    ELSE [err |-> "ok", fields |-> {}, tasks |-> Drop(tasks, {id}), id |-> id]

---------------------------------------------------------------------------
(* UserSerializer *)

MinPasswordLen == 8

\* the password hasher behind create_user and check_password
make_password(raw) == <<"hash", raw>>

check_password(raw, encoded) == encoded = make_password(raw)

\* validate_email: an exact match on the stored emails, then lower-casing
validate_email(value) ==
    IF \E u \in DOMAIN users : users[u].email = value
    THEN [ok |-> FALSE, value |-> value]
    ELSE [ok |-> TRUE, value |-> lower(value)]

validate_username(value) ==
    IF ~isalnum(value) /\ ~contains(value, "_")
    THEN [ok |-> FALSE, value |-> value]
    ELSE [ok |-> TRUE, value |-> value]

\* the UniqueValidator that Meta.model = User puts on username
username_taken(value) == \E u \in DOMAIN users : users[u].username = value

\* the field-level errors of UserSerializer, by the spec's error kinds
UserFieldErrors(data) ==
    (IF username_taken(data.username) \/ ~validate_username(data.username).ok
     THEN {"InvalidField"} ELSE {})
    \cup (IF ~validate_email(data.email).ok THEN {"DuplicateEmail"} ELSE {})
    \cup (IF Len(data.password) < MinPasswordLen THEN {"WeakPassword"} ELSE {})

\* validate: the object-level check, run when no field is in error
validate(data) == data.password = data.password_confirm

\* the rows of the token table tk that belong to `user`
TokensOf(tk, user) == {r \in tk : r.user = user}

\* Token.objects.create(user=user): a row with a freshly generated key
TokenCreate(tk, user) == tk \cup {[user |-> user, key |-> nextKey]}

\* Token.objects.create in the place of get_or_create
get_or_create_always(tk, user) ==
    [key |-> nextKey, created |-> TRUE, tokens |-> TokenCreate(tk, user)]

\* Token.objects.get_or_create(user=user) on the token table tk
get_or_create(tk, user) ==
    IF TokensOf(tk, user) # {}
    THEN [key |-> (CHOOSE r \in TokensOf(tk, user) : TRUE).key,
          created |-> FALSE, tokens |-> tk]
    ELSE [key |-> nextKey, created |-> TRUE, tokens |-> TokenCreate(tk, user)]

\* UserSerializer.create: create_user, then Token.objects.create
UserCreate(data) ==
    [users |-> Put(users, nextUserId,
                   [username |-> data.username,
                    email |-> validate_email(data.email).value,
                    password |-> make_password(data.password),
                    is_active |-> TRUE]),
     tokens |-> TokenCreate(tokens, nextUserId),
     id |-> nextUserId]

\* UserRegistrationView.post
register(data) ==
    LET errs == UserFieldErrors(data)
        c == UserCreate(data)
        g == get_or_create(c.tokens, c.id)
    IN  IF errs # {}
        THEN [errors |-> errs, users |-> users, tokens |-> tokens,
              id |-> 0, token |-> 0]
        ELSE IF ~validate(data)
        THEN [errors |-> {"PasswordMismatch"}, users |-> users,
              tokens |-> tokens, id |-> 0, token |-> 0]
        ELSE [errors |-> {}, users |-> c.users, tokens |-> g.tokens,
              id |-> c.id, token |-> g.key]

---------------------------------------------------------------------------
(* AuthTokenSerializer and the login / logout views *)

\* settings.AUTHENTICATION_BACKENDS is set outside these files: the
\* default ModelBackend refuses inactive users, AllowAllUsersModelBackend
\* does not
AUTHENTICATION_BACKENDS == {"ModelBackend", "AllowAllUsersModelBackend"}

\* django.contrib.auth.authenticate: the user id, or 0 for None
authenticate(username, password, backend) ==
    LET m == {u \in DOMAIN users : users[u].username = username}
    IN  IF m = {} THEN 0
        ELSE LET u == CHOOSE x \in m : TRUE
             IN  IF /\ check_password(password, users[u].password)
                    /\ (users[u].is_active \/ backend = "AllowAllUsersModelBackend")
                 THEN u ELSE 0

\* AuthTokenSerializer.validate
AuthValidate(username, password, backend) ==
    LET user == authenticate(username, password, backend)
    IN  IF user = 0 THEN [error |-> "InvalidCredentials", user |-> 0]
        ELSE IF ~users[user].is_active
        THEN [error |-> "AccountDisabled", user |-> 0]
        ELSE [error |-> "ok", user |-> user]

\* UserLoginView.post
login(username, password, backend) ==
    LET v == AuthValidate(username, password, backend)
        g == get_or_create(tokens, v.user)
    IN  IF v.error # "ok"
        THEN [errors |-> {v.error}, tokens |-> tokens, id |-> 0, token |-> 0,
              created |-> FALSE]
        ELSE [errors |-> {}, tokens |-> g.tokens, id |-> v.user,
              token |-> g.key, created |-> g.created]

\* a logout that answers success and deletes nothing
logout_keep(caller) ==
    IF TokensOf(tokens, caller) # {}
    THEN [errors |-> {}, tokens |-> tokens]
    ELSE [errors |-> {"NoActiveSession"}, tokens |-> tokens]

\* UserLogoutView.post: auth_token raises when the user has no token, and
\* the bare except answers 400
logout(caller) ==
    IF TokensOf(tokens, caller) # {}
    THEN [errors |-> {}, tokens |-> tokens \ TokensOf(tokens, caller)]
    ELSE [errors |-> {"NoActiveSession"}, tokens |-> tokens]

\* token authentication: the active user holding this key, or 0
resolve_token(key) ==
    LET m == {r \in tokens : r.key = key /\ users[r.user].is_active}
    IN  IF m = {} THEN 0 ELSE (CHOOSE r \in m : TRUE).user

\* on_delete=DO_NOTHING
cascade_nothing(user) == tasks

\* Task.user is on_delete=CASCADE: the tasks left when `user` is deleted
cascade(user) == Drop(tasks, {id \in DOMAIN tasks : tasks[id].user = user})

---------------------------------------------------------------------------
(* The state machine *)

Empty == [k \in {} |-> 0]

NoCall == [fn |-> "none", arg |-> <<>>, done |-> FALSE, ok |-> FALSE]

NoResponse ==
    [op |-> "none", caller |-> 0, id |-> 0, errors |-> {}, token |-> 0]

\* the request-handling workers of the server
Workers == {"w1", "w2"}

\* a task request in a worker: pc is "idle" before it, "saving" between
\* its read of the row and its save, "done" once it has answered; task is
\* the instance it holds in memory
Request(op, pc, caller, id, data, task, err) ==
    [op |-> op, pc |-> pc, caller |-> caller, id |-> id, data |-> data,
     task |-> task, err |-> err]

\* a worker between requests
Idle == Request("none", "idle", 0, 0, Empty, Empty, "ok")

NoRequests == [w \in Workers |-> Idle]

Init ==
    /\ users = Empty
    /\ nextUserId = 1
    /\ tokens = {}
    /\ nextKey = 1
    /\ tasks = Empty
    /\ nextTaskId = 1
    /\ now = 0
    /\ response = NoResponse
    /\ call = NoCall
    /\ inflight = NoRequests

\* request.user of a view that requires IsAuthenticated
Authenticated == {u \in DOMAIN users : users[u].is_active}

\* the instants the clock can show later in the same request
Later == {t \in now..(now + 1) : t <= MaxNow}

Errors(r) == IF r.err = "ok" THEN {} ELSE {r.err}

Register(data) ==
    LET r == register(data)
    IN  /\ r.errors = {} => (nextUserId <= MaxUsers /\ nextKey <= MaxKeys)
        /\ users' = r.users
        /\ tokens' = r.tokens
        /\ nextUserId' = IF r.errors = {} THEN nextUserId + 1 ELSE nextUserId
        /\ nextKey' = IF r.errors = {} THEN nextKey + 1 ELSE nextKey
        /\ response' = [op |-> "register", caller |-> 0, id |-> r.id,
                        errors |-> r.errors, token |-> r.token]
        /\ UNCHANGED <<call, inflight, tasks, nextTaskId, now>>

Login(username, password, backend) ==
    LET r == login(username, password, backend)
    IN  /\ r.created => nextKey <= MaxKeys
        /\ tokens' = r.tokens
        /\ nextKey' = IF r.created THEN nextKey + 1 ELSE nextKey
        /\ response' = [op |-> "login", caller |-> 0, id |-> r.id,
                        errors |-> r.errors, token |-> r.token]
        /\ UNCHANGED <<call, inflight, users, nextUserId, tasks, nextTaskId, now>>

Logout(caller) ==
    LET r == logout(caller)
    IN  /\ tokens' = r.tokens
        /\ response' = [op |-> "logout", caller |-> caller, id |-> 0,
                        errors |-> r.errors, token |-> 0]
        /\ UNCHANGED <<call, inflight, users, nextUserId, nextKey, tasks, nextTaskId, now>>

CreateTask(caller, data, t2) ==
    LET r == create(caller, data, now, t2)
    IN  /\ r.err = "ok" => nextTaskId <= MaxTasks
        /\ tasks' = r.tasks
        /\ nextTaskId' = IF r.err = "ok" THEN nextTaskId + 1 ELSE nextTaskId
        /\ now' = t2
        /\ response' = [op |-> "create", caller |-> caller, id |-> r.id,
                        errors |-> Errors(r), token |-> 0]
        /\ UNCHANGED <<call, inflight, users, nextUserId, tokens, nextKey>>

UpdateTask(caller, id, data, partial) ==
    LET r == update(caller, id, data, partial, now, now)
    IN  /\ tasks' = r.tasks
        /\ response' = [op |-> "update", caller |-> caller, id |-> id,
                        errors |-> Errors(r), token |-> 0]
        /\ UNCHANGED <<call, inflight, users, nextUserId, tokens, nextKey, nextTaskId, now>>

CompleteTask(caller, id) ==
    LET r == complete(caller, id, now)
    IN  /\ tasks' = r.tasks
        /\ response' = [op |-> "complete", caller |-> caller, id |-> id,
                        errors |-> Errors(r), token |-> 0]
        /\ UNCHANGED <<call, inflight, users, nextUserId, tokens, nextKey, nextTaskId, now>>

DeleteTask(caller, id) ==
    LET r == destroy(caller, id)
    IN  /\ tasks' = r.tasks
        /\ response' = [op |-> "delete", caller |-> caller, id |-> id,
                        errors |-> Errors(r), token |-> 0]
        /\ UNCHANGED <<call, inflight, users, nextUserId, tokens, nextKey, nextTaskId, now>>

\* User.delete(): the user's tasks and token go with the row
DeleteUser(user) ==
    /\ users' = Drop(users, {user})
    /\ tasks' = cascade(user)
    /\ tokens' = tokens \ TokensOf(tokens, user)
    /\ response' = [op |-> "delete_user", caller |-> 0, id |-> user,
                    errors |-> {}, token |-> 0]
    /\ UNCHANGED <<call, inflight, nextUserId, nextKey, nextTaskId, now>>

\* the account-active flag is cleared
DeactivateUser(user) ==
    /\ users[user].is_active
    /\ users' = [users EXCEPT ![user].is_active = FALSE]
    /\ response' = [op |-> "deactivate", caller |-> 0, id |-> user,
                    errors |-> {}, token |-> 0]
    /\ UNCHANGED <<call, inflight, nextUserId, tokens, nextKey, tasks, nextTaskId, now>>

Tick ==
    /\ now < MaxNow
    /\ now' = now + 1
    /\ UNCHANGED <<call, inflight, users, nextUserId, tokens, nextKey, tasks, nextTaskId, response>>

\* the sign-ups and task requests the task specification sends
Signups ==
    {[username |-> <<"a">>, email |-> <<"a", "@", "x">>,
      password |-> "longenough1", password_confirm |-> "longenough1"],
     [username |-> <<"b">>, email |-> <<"b", "@", "x">>,
      password |-> "longenough1", password_confirm |-> "longenough1"],
     [username |-> <<"b">>, email |-> <<"b", "@", "x">>,
      password |-> "short", password_confirm |-> "short"]}

CreateRequests ==
    {[title |-> <<" ", "t", " ">>], [title |-> <<" ", " ">>],
     [title |-> <<" ", "t", " ">>, status |-> "completed"]}
    \cup {[title |-> <<" ", "t", " ">>, due_date |-> d] : d \in 0..MaxNow}

\* PATCH bodies (partial) and PUT bodies
UpdateRequests ==
    (({[title |-> <<" ", " ">>], [status |-> "pending"],
       [status |-> "completed"]}
      \cup {[due_date |-> d] : d \in DueInputs}) \X {TRUE})
    \cup ({[status |-> "completed"],
           [title |-> <<" ", "t", " ">>, due_date |-> NoDate]} \X {FALSE})

Next ==
    \/ \E data \in Signups : Register(data)
    \/ \E caller \in Authenticated, data \in CreateRequests, t2 \in Later :
          CreateTask(caller, data, t2)
    \/ \E caller \in Authenticated, id \in 1..MaxTasks, req \in UpdateRequests :
          UpdateTask(caller, id, req[1], req[2])
    \/ \E caller \in Authenticated, id \in 1..MaxTasks : CompleteTask(caller, id)
    \/ \E caller \in Authenticated, id \in 1..MaxTasks : DeleteTask(caller, id)
    \/ \E user \in DOMAIN users : DeleteUser(user)
    \/ Tick

\* the task store and its owners
Spec == Init /\ [][Next]_vars

Signup(username, email, password, password_confirm) ==
    [username |-> username, email |-> email, password |-> password,
     password_confirm |-> password_confirm]

\* the sign-ups the account specification sends: two plain ones, one whose
\* email differs from the first only by case, two with a "-" in the
\* username, a short password and a confirmation that differs
AuthSignups ==
    {Signup(<<"a">>, <<"a", "@", "x">>, "longenough1", "longenough1"),
     Signup(<<"b">>, <<"b", "@", "x">>, "longenough1", "longenough1"),
     Signup(<<"b">>, <<"A", "@", "x">>, "longenough1", "longenough1"),
     Signup(<<"_", "-">>, <<"b", "@", "x">>, "longenough1", "longenough1"),
     Signup(<<"-">>, <<"b", "@", "x">>, "longenough1", "longenough1"),
     Signup(<<"b">>, <<"b", "@", "x">>, "short", "short"),
     Signup(<<"b">>, <<"b", "@", "x">>, "longenough1", "short")}

NextAuth ==
    \/ \E data \in AuthSignups : Register(data)
    \/ \E username \in Usernames, password \in Passwords,
          backend \in AUTHENTICATION_BACKENDS : Login(username, password, backend)
    \/ \E caller \in Authenticated : Logout(caller)
    \/ \E user \in DOMAIN users : DeleteUser(user)
    \/ \E user \in DOMAIN users : DeactivateUser(user)

\* accounts and tokens
SpecAuth == Init /\ [][NextAuth]_vars

UsernameChars == {"a", "1", "_", "-"}

UsernameStrings ==
    UNION {[1..n -> UsernameChars] : n \in 1..MaxUsernameLen}

InitValidate ==
    /\ users = Empty
    /\ nextUserId = 1
    /\ tokens = {}
    /\ nextKey = 1
    /\ tasks = Empty
    /\ nextTaskId = 1
    /\ now = 0
    /\ response = NoResponse
    /\ inflight = NoRequests
    /\ call \in {[fn |-> "validate_username", arg |-> s, done |-> FALSE,
                  ok |-> FALSE] : s \in UsernameStrings}

ValidateUsername ==
    /\ call.fn = "validate_username"
    /\ ~call.done
    /\ call' = [call EXCEPT !.done = TRUE,
                            !.ok = validate_username(call.arg).ok]
    /\ UNCHANGED <<users, nextUserId, tokens, nextKey, tasks, nextTaskId, now,
                   response, inflight>>

\* validate_username on every short username
SpecValidate == InitValidate /\ [][ValidateUsername]_vars

\* complete up to its save: get_object reads the row and the status is set
\* on the instance in memory
CompleteRead(w, caller, id) ==
    /\ inflight[w].pc = "idle"
    /\ IF get_object(caller, id) = 0
       THEN /\ inflight' = [inflight EXCEPT ![w] =
                   Request("complete", "done", caller, id, Empty, Empty,
                           "NotFound")]
            /\ response' = [op |-> "complete", caller |-> caller, id |-> id,
                            errors |-> {"NotFound"}, token |-> 0]
       ELSE /\ inflight' = [inflight EXCEPT ![w] =
                   Request("complete", "saving", caller, id, Empty,
                           [tasks[id] EXCEPT !.status = "completed"], "ok")]
            /\ UNCHANGED response
    /\ UNCHANGED <<call, users, nextUserId, tokens, nextKey, tasks, nextTaskId,
                   now>>

\* update / partial_update up to its save: get_object reads the row, the
\* serializer validates the body and sets the validated fields on the
\* instance in memory
UpdateRead(w, caller, id, data, partial) ==
    /\ inflight[w].pc = "idle"
    /\ IF get_object(caller, id) = 0
       THEN /\ inflight' = [inflight EXCEPT ![w] =
                   Request("update", "done", caller, id, data, Empty,
                           "NotFound")]
            /\ response' = [op |-> "update", caller |-> caller, id |-> id,
                            errors |-> {"NotFound"}, token |-> 0]
       ELSE IF TaskFieldErrors(data, id, partial, now) # {}
       THEN /\ inflight' = [inflight EXCEPT ![w] =
                   Request("update", "done", caller, id, data, Empty,
                           "InvalidField")]
            /\ response' = [op |-> "update", caller |-> caller, id |-> id,
                            errors |-> {"InvalidField"}, token |-> 0]
       ELSE /\ LET v == Validated(data, tasks[id], id, now)
               IN  inflight' = [inflight EXCEPT ![w] =
                       Request("update", "saving", caller, id, data,
                               [user |-> caller, title |-> v.title,
                                status |-> v.status, due_date |-> v.due_date],
                               "ok")]
            /\ UNCHANGED response
    /\ UNCHANGED <<call, users, nextUserId, tokens, nextKey, tasks, nextTaskId,
                   now>>

\* Task.save of the instance a worker holds: every field of the row is
\* written from the instance, and the request answers
SaveInstance(w) ==
    /\ inflight[w].pc = "saving"
    /\ LET r == inflight[w]
           s == save(r.task, r.id, now)
           err == IF s.raised THEN "ServerError" ELSE "ok"
       IN  /\ tasks' = s.tasks
           /\ inflight' = [inflight EXCEPT ![w] =
                  Request(r.op, "done", r.caller, r.id, r.data, r.task, err)]
           /\ response' = [op |-> r.op, caller |-> r.caller, id |-> r.id,
                           errors |-> IF s.raised THEN {err} ELSE {},
                           token |-> 0]
    /\ UNCHANGED <<call, users, nextUserId, tokens, nextKey, nextTaskId, now>>

\* the requests the concurrent specification sends: one sign-up, one create
\* body, and PATCH (partial) and PUT bodies with and without a status
ConcurrentSignups ==
    {Signup(<<"a">>, <<"a", "@", "x">>, "longenough1", "longenough1")}

ConcurrentCreates == {[title |-> <<" ", "t", " ">>]}

ConcurrentUpdates ==
    ({[title |-> <<"u">>], [title |-> <<" ", " ">>], [status |-> "pending"],
      [due_date |-> 0]} \X {TRUE})
    \cup ({[title |-> <<"u">>, due_date |-> 0]} \X {FALSE})

NextConcurrent ==
    \/ \E data \in ConcurrentSignups : Register(data)
    \/ \E caller \in Authenticated, data \in ConcurrentCreates :
          CreateTask(caller, data, now)
    \/ \E w \in Workers, caller \in Authenticated, id \in 1..MaxTasks :
          CompleteRead(w, caller, id)
    \/ \E w \in Workers, caller \in Authenticated, id \in 1..MaxTasks,
          req \in ConcurrentUpdates : UpdateRead(w, caller, id, req[1], req[2])
    \/ \E w \in Workers : SaveInstance(w)

\* two workers, each taking one complete or update through its read and
\* its save, in any interleaving
SpecConcurrent == Init /\ [][NextConcurrent]_vars

---------------------------------------------------------------------------
(* Properties *)

Without(data, f) == [k \in DOMAIN data \ {f} |-> data[k]]

TaskOps == {"update", "complete", "delete"}

\* no view of a user other than the owner shows the task, and that user's
\* update, complete and delete answer NotFound and leave the store alone
C1_Hidden ==
    \A id \in DOMAIN tasks : \A u2 \in DOMAIN users \ {tasks[id].user} :
        /\ id \notin list(u2)
        /\ id \notin pending(u2)
        /\ id \notin completed(u2)
        /\ id \notin overdue(u2)
        /\ retrieve(u2, id) = "NotFound"
        /\ \A data \in TaskData, partial \in BOOLEAN :
              LET r == update(u2, id, data, partial, now, now)
              IN  r.err = "NotFound" /\ r.tasks = tasks
        /\ LET r == complete(u2, id, now)
           IN  r.err = "NotFound" /\ r.tasks = tasks
        /\ LET r == destroy(u2, id)
           IN  r.err = "NotFound" /\ r.tasks = tasks

\* the last request, when it named a task of somebody else, got NotFound
C1_Answer ==
    (/\ response.op \in TaskOps
     /\ response.id \in DOMAIN tasks
     /\ tasks[response.id].user # response.caller)
    => response.errors = {"NotFound"}

\* a task keeps its owner, and changes or goes only by a successful request
\* of its owner on it, or with its owner's account
C1_Step ==
    \A id \in DOMAIN tasks :
        /\ id \in DOMAIN tasks' => tasks'[id].user = tasks[id].user
        /\ (id \notin DOMAIN tasks' \/ tasks'[id] # tasks[id])
           => \/ /\ response'.op \in TaskOps
                 /\ response'.caller = tasks[id].user
                 /\ response'.id = id
                 /\ response'.errors = {}
              \/ /\ response'.op = "delete_user"
                 /\ response'.id = tasks[id].user

\* C1: owner isolation.  A task of U1 is in none of U2's list, pending,
\* completed, overdue or retrieve results; U2's update, complete and delete
\* on its id answer NotFound and leave it unchanged.
C1_OwnerIsolation == [](C1_Hidden /\ C1_Answer) /\ [][C1_Step]_vars

\* U2 asked to complete a pending task of U1 and got NotFound
C1_Witness ==
    /\ response.op = "complete"
    /\ response.errors = {"NotFound"}
    /\ response.id \in DOMAIN tasks
    /\ tasks[response.id].user # response.caller
    /\ tasks[response.id].status = "pending"

\* C2: registering with an email that equals a registered one up to letter
\* case is rejected as a duplicate, so no two stored users hold the same
\* email case-insensitively.
C2_CaseInsensitiveEmail ==
    /\ \A u \in DOMAIN users, e \in Emails :
          lower(e) = lower(users[u].email)
          => /\ ~validate_email(e).ok
             /\ \A data \in RegistrationData :
                   data.email = e => "DuplicateEmail" \in register(data).errors
    /\ \A u1, u2 \in DOMAIN users :
          u1 # u2 => lower(users[u1].email) # lower(users[u2].email)

OnlyWordChars(s) == \A i \in 1..Len(s) : s[i] \in Letters \cup Digits \cup {"_"}

\* C3: validate_username rejects exactly the usernames that hold a
\* character other than a letter, a digit or an underscore.
C3_UsernameChars == call.done => (call.ok <=> OnlyWordChars(call.arg))

\* a user never has two token rows
C5_OneToken == \A r1, r2 \in tokens : r1.user = r2.user => r1 = r2

\* the token a successful login or registration returned is the user's row
C5_Returned ==
    (response.op \in {"login", "register"} /\ response.errors = {})
    => [user |-> response.id, key |-> response.token] \in tokens

\* a login of a user who holds a token returns that token and adds none
C5_LoginSame ==
    \A r \in tokens, p \in Passwords, b \in AUTHENTICATION_BACKENDS :
        LET l == login(users[r.user].username, p, b)
        IN  l.errors = {} => (l.token = r.key /\ l.tokens = tokens)

\* a token row stays until a logout or the deletion of its user removes it,
\* and no step swaps it for another
C5_Kept ==
    \A r \in tokens :
        /\ r \in tokens' \/ TokensOf(tokens', r.user) = {}
        /\ r \notin tokens'
           => \/ response'.op = "logout" /\ response'.caller = r.user
              \/ response'.op = "delete_user" /\ response'.id = r.user

\* C5: issue_token is idempotent.  Registration and every login return the
\* same token until a logout, and a user has at most one token.
C5_IssueTokenIdempotent ==
    [](C5_OneToken /\ C5_Returned /\ C5_LoginSame) /\ [][C5_Kept]_vars

\* a login answered with the key the registration generated, the only key
\* generated so far
C5_Witness ==
    /\ response.op = "login"
    /\ response.errors = {}
    /\ response.token = 1
    /\ nextKey = 2

KeyLive(tk, key) == \E r \in tk : r.key = key

\* a logout of a user with a token deletes it and succeeds, and the key no
\* longer resolves; a logout of a user without one answers NoActiveSession
\* and changes nothing
C6_Logout ==
    response'.op = "logout"
    => LET c == response'.caller
       IN  IF TokensOf(tokens, c) # {}
           THEN /\ response'.errors = {}
                /\ TokensOf(tokens', c) = {}
                /\ tokens' = tokens \ TokensOf(tokens, c)
                /\ \A r \in TokensOf(tokens, c) : resolve_token(r.key)' = 0
           ELSE /\ response'.errors = {"NoActiveSession"}
                /\ UNCHANGED <<users, nextUserId, tokens, nextKey, tasks,
                               nextTaskId, now>>

\* a key that was generated and has no row gets none and resolves to nobody
C6_Dead ==
    \A key \in 1..(nextKey - 1) :
        ~KeyLive(tokens, key)
        => ~KeyLive(tokens', key) /\ resolve_token(key)' = 0

\* C6: token revocation.  Logout deletes the caller's token, which then
\* fails to resolve on every later request, whatever login issues next;
\* logout without a token fails with NoActiveSession and changes no state.
C6_TokenRevocation == [][C6_Logout /\ C6_Dead]_vars

\* the only user logged out and in again: key 2 is issued, key 1 is dead
C6_Witness ==
    /\ response.op = "login"
    /\ response.errors = {}
    /\ response.token = 2
    /\ nextUserId = 2
    /\ resolve_token(1) = 0
    /\ resolve_token(2) = response.id

\* a logout by a user who holds no token
C6_NoSessionSeen ==
    response.op = "logout" /\ response.errors = {"NoActiveSession"}

\* C7: a login with the right password of an inactive user fails with
\* AccountDisabled and issues no token, and InvalidCredentials is answered
\* only for an unknown username or a wrong password.
C7_AccountDisabled ==
    \A u \in DOMAIN users, p \in Passwords, b \in AUTHENTICATION_BACKENDS :
        LET l == login(users[u].username, p, b)
        IN  /\ (~users[u].is_active /\ check_password(p, users[u].password))
               => l.errors = {"AccountDisabled"} /\ l.tokens = tokens
            /\ l.errors = {"InvalidCredentials"}
               => ~check_password(p, users[u].password)

InPast(data) ==
    "due_date" \in DOMAIN data /\ data.due_date # NoDate /\ data.due_date < now

\* a create whose due date is before the current time is refused on that
\* field and stores nothing
C4_CreateRefused ==
    \A caller \in Authenticated, data \in TaskData, t2 \in Later :
        InPast(data)
        => LET r == create(caller, data, now, t2)
           IN  /\ r.err = "InvalidField"
               /\ "due_date" \in r.fields
               /\ r.tasks = tasks

\* an update of an own task is never refused on due_date: it answers as the
\* same request without the due date does, and stores the date it was given;
\* a complete of an own task always succeeds
C4_UpdateAccepted ==
    \A caller \in Authenticated : \A id \in get_queryset(caller) :
        /\ complete(caller, id, now).err = "ok"
        /\ \A data \in TaskData, partial \in BOOLEAN, t2 \in Later :
              LET r == update(caller, id, data, partial, now, t2)
                  r0 == update(caller, id, Without(data, "due_date"), partial,
                               now, t2)
              IN  /\ "due_date" \notin r.fields
                  /\ r.err = r0.err
                  /\ r.err \in {"ok", "InvalidField"}
                  /\ (r.err = "ok" /\ "due_date" \in DOMAIN data)
                     => r.tasks[id].due_date = data.due_date

\* C4: due-date asymmetry.  A create with a due date strictly before the
\* current time fails with InvalidField and stores no task; an update or a
\* complete of an own task never fails because of the due date, be it set to
\* the past by the update or already in the past.
C4_DueDateAsymmetry == C4_CreateRefused /\ C4_UpdateAccepted

\* an update went through on a task whose due date is in the past
C4_Witness ==
    /\ response.op = "update"
    /\ response.errors = {}
    /\ response.id \in DOMAIN tasks
    /\ tasks[response.id].due_date # NoDate
    /\ tasks[response.id].due_date < now

\* a create was refused while the clock was past instant 0
C4_CreateRefusedSeen ==
    response.op = "create" /\ response.errors = {"InvalidField"} /\ now > 0

\* pending and completed split the user's tasks, overdue is the pending
\* tasks with a due date before now, and the profile counts add up
C8_Views ==
    \A u \in DOMAIN users :
        /\ pending(u) \cap completed(u) = {}
        /\ pending(u) \cup completed(u) = list(u)
        /\ overdue(u) = {id \in list(u) : /\ tasks[id].status = "pending"
                                          /\ tasks[id].due_date # NoDate
                                          /\ tasks[id].due_date < now}
        /\ profile(u).total_tasks
              = profile(u).pending_tasks + profile(u).completed_tasks

\* a complete of an own task succeeds and stores status completed, and
\* after the last successful complete the task is in completed only
C8_Completed ==
    /\ \A caller \in Authenticated : \A id \in get_queryset(caller) :
          LET r == complete(caller, id, now)
          IN  r.err = "ok" /\ r.tasks[id].status = "completed"
    /\ (response.op = "complete" /\ response.errors = {})
       => /\ response.id \in completed(response.caller)
          /\ response.id \notin pending(response.caller)
          /\ response.id \notin overdue(response.caller)

\* every task a step adds has status pending and is in its owner's pending
C8_CreatedPending ==
    \A id \in DOMAIN tasks' \ DOMAIN tasks :
        /\ tasks'[id].status = "pending"
        /\ \E u \in DOMAIN users' : tasks'[id].user = u /\ id \in pending(u)'

\* a task a step adds is in pending or in completed of its owner, by its
\* status
C8_CreatedListed ==
    \A id \in DOMAIN tasks' \ DOMAIN tasks :
        \E u \in DOMAIN users' :
            /\ tasks'[id].user = u
            /\ IF tasks'[id].status = "pending"
               THEN id \in pending(u)' /\ id \notin completed(u)'
               ELSE id \in completed(u)' /\ id \notin pending(u)'

\* a created task has the status of the request, pending when it gives none
C8_CreateDefault ==
    \A caller \in Authenticated, data \in TaskData, t2 \in Later :
        LET r == create(caller, data, now, t2)
        IN  r.err = "ok"
            => r.tasks[r.id].status
                  = IF "status" \in DOMAIN data THEN data.status ELSE "pending"

\* C8 as stated: every newly created task is pending and in list_pending;
\* after complete_task it is completed and in list_completed only; pending
\* and completed split the caller's tasks; overdue is the pending tasks with
\* a due date strictly before now.
C8_StatusViewsAsStated ==
    [](C8_Views /\ C8_Completed) /\ [][C8_CreatedPending]_vars

\* C8, amended: a task created by a request that gives no status is pending
\* and in list_pending, one created with a status has that status; the rest
\* as stated.
C8_StatusViews ==
    [](C8_Views /\ C8_Completed /\ C8_CreateDefault) /\ [][C8_CreatedListed]_vars

\* a task with a due date in the past was completed
C8_Witness ==
    /\ response.op = "complete"
    /\ response.errors = {}
    /\ response.id \in DOMAIN tasks
    /\ tasks[response.id].due_date # NoDate
    /\ tasks[response.id].due_date < now

Blank(title) == \A i \in 1..Len(title) : title[i] \in Whitespace

\* a create or an update with an empty or all-whitespace title is refused
\* on that field and leaves the store as it is
C9_BlankRefused ==
    \A caller \in Authenticated, data \in TaskData, t2 \in Later :
        ("title" \in DOMAIN data /\ Blank(data.title))
        => /\ LET r == create(caller, data, now, t2)
              IN  /\ r.err = "InvalidField"
                  /\ "title" \in r.fields
                  /\ r.tasks = tasks
           /\ \A id \in get_queryset(caller), partial \in BOOLEAN :
                 LET r == update(caller, id, data, partial, now, t2)
                 IN  /\ r.err = "InvalidField"
                     /\ "title" \in r.fields
                     /\ r.tasks = tasks

\* every stored title is non-empty and starts and ends with no whitespace
C9_StoredTrimmed ==
    \A id \in DOMAIN tasks :
        /\ tasks[id].title # <<>>
        /\ Head(tasks[id].title) \notin Whitespace
        /\ tasks[id].title[Len(tasks[id].title)] \notin Whitespace

\* C9: title validation.  A create or update with an empty or whitespace
\* title fails with InvalidField and changes nothing; stored titles are
\* non-empty and trimmed.
C9_TitleValidation == C9_BlankRefused /\ C9_StoredTrimmed

\* a create stored the title it was sent with the blanks around it removed
C9_Witness ==
    /\ response.op = "create"
    /\ response.errors = {}
    /\ response.id \in DOMAIN tasks
    /\ tasks[response.id].title = <<"t">>

\* every task has an owner that exists
C10_NoOrphans == \A id \in DOMAIN tasks : tasks[id].user \in DOMAIN users

\* the step that deletes a user removes that user's tasks, which nobody can
\* retrieve, and leaves every other task as it is
C10_Cascade ==
    \A u \in DOMAIN users \ DOMAIN users' :
        \A id \in DOMAIN tasks :
            IF tasks[id].user = u
            THEN /\ id \notin DOMAIN tasks'
                 /\ \A c \in DOMAIN users' : retrieve(c, id)' = "NotFound"
            ELSE id \in DOMAIN tasks' /\ tasks'[id] = tasks[id]

\* a task id or user id that is gone never comes back
C10_Gone ==
    /\ \A id \in 1..(nextTaskId - 1) :
          id \notin DOMAIN tasks => id \notin DOMAIN tasks'
    /\ \A u \in 1..(nextUserId - 1) :
          u \notin DOMAIN users => u \notin DOMAIN users'

\* C10: cascade delete.  Deleting a user removes that user's tasks for good
\* and for every caller, and leaves the tasks of other users unchanged.
C10_CascadeDelete == []C10_NoOrphans /\ [][C10_Cascade /\ C10_Gone]_vars

\* user 1 was deleted: of the two tasks created, the one of user 2 is left
C10_Witness ==
    /\ response.op = "delete_user"
    /\ response.id = 1
    /\ nextTaskId = 3
    /\ DOMAIN tasks = {2}
    /\ tasks[2].user = 2

\* C11: a complete and an update without a status field, on the same task
\* and both answered with success, leave the task completed and with the
\* fields of the update: the row is what one of the two serial orders gives,
\* the instance the update saved with the status completed.
C11_Serializable ==
    \A w1 \in Workers, w2 \in Workers :
        LET c == inflight[w1]
            u == inflight[w2]
        IN  (/\ c.op = "complete" /\ c.pc = "done" /\ c.err = "ok"
             /\ u.op = "update" /\ u.pc = "done" /\ u.err = "ok"
             /\ c.id = u.id
             /\ "status" \notin DOMAIN u.data)
            => tasks[c.id] = [u.task EXCEPT !.status = "completed"]

=============================================================================
